---- MODULE Spec2Model ----
(***************************************************************************)
(* The IRC platform adapter of sockethub                                   *)
(* (packages/sockethub-platform-irc/index.js): the verb handlers join,     *)
(* leave, send, update, observe and cleanup, the promise plumbing of       *)
(* _getClient / _createClient, and the collaborators they talk to (the     *)
(* credential store, the connection manager `session.connection`, the      *)
(* irc-factory backend). Further the callbacks of the XMPP platform        *)
(* (packages/sockethub-platform-xmpp/lib/incoming-handlers.js) and the     *)
(* guard referenceProtection puts between them and the session.            *)
(*                                                                         *)
(* Strings are modelled as sequences of tokens, so that concatenation is   *)
(* \o and `indexOf('#') === 0` is a test of the first token.               *)
(***************************************************************************)
EXTENDS Integers, Sequences, FiniteSets, TLC

\* ------------------------------------------------------------------ bounds

\* Number of inputs the adapter instance receives: jobs from the worker and
\* events from the backend.
MaxJobs == 2

\* ------------------------------------------------------------ input domains

Server == <<"host">>
Alice  == <<"alice">>
Alice2 == <<"alice2">>
Nicks  == {Alice, Alice2}

Room   == <<"#", "room">>
\* a person name that contains '#', but not at index 0
Person == <<"bob", "#">>
Targets == {Room, Person}

\* message bodies; " " is the only whitespace token
Contents == {<<" ", "hi", " ", "you", " ">>, <<" ">>}

Verbs == {"join", "leave", "send", "update", "observe"}

NoJob    == [verb |-> "none"]
NoCreds  ==
  [id |-> <<>>, displayName |-> <<>>, name |-> <<>>, nick |-> <<>>, server |-> <<>>]
NoClient == [key |-> <<>>, credentials |-> NoCreds, handle |-> 0]

\* what `done` is called with: nothing (success) or an error
Success     == "success"
NotJoined   == "cannot send message to a channel not first joined"
UnknownType == "unknown objectType"
NoClientObj == "didnt receive a client object."
ConnectErrors == {"ConnectTimeout", "ConnectFailed"}

\* ------------------------------------------------------------------ helpers

Range(s) == {s[i] : i \in 1..Len(s)}

\* Array.prototype.indexOf, 0-based, -1 when absent
RECURSIVE IndexFrom(_, _, _)
IndexFrom(s, x, i) ==
  IF i > Len(s) THEN -1
  ELSE IF s[i] = x THEN i - 1
  ELSE IndexFrom(s, x, i + 1)

IndexOf(s, x) == IndexFrom(s, x, 1)

\* Array.prototype.splice(index, 1), index 0-based
Splice1(s, index) ==
  [i \in 1..(Len(s) - 1) |-> IF i <= index THEN s[i] ELSE s[i + 1]]

IsSpace(c) == c = " "

\* the match of /^\s+/ removed
RECURSIVE DropLeading(_)
DropLeading(s) ==
  IF s # <<>> /\ IsSpace(Head(s)) THEN DropLeading(Tail(s)) ELSE s

\* the match of /\s+$/ removed
RECURSIVE DropTrailing(_)
DropTrailing(s) ==
  IF s # <<>> /\ IsSpace(s[Len(s)])
  THEN DropTrailing(SubSeq(s, 1, Len(s) - 1))
  ELSE s

\* content.replace(/^\s+|\s+$/g, "")
Trim(s) == DropTrailing(DropLeading(s))

\* the identity string of an actor, 'irc://nick@server'
ActorId(nick) == <<"irc://">> \o nick \o <<"@">> \o Server

\* the credentials object the dispatcher stored for an actor via `set`
CredsOf(nick) ==
  [id          |-> ActorId(nick),
   displayName |-> nick,
   name        |-> nick,
   nick        |-> nick,
   server      |-> Server]

\* ------------------------------------------------------- identifier lookup

\* names bound at module level of index.js
ModuleScope == {"IRCFactory", "Promise", "debug", "packageJSON", "IRC"}

\* names visible inside the handler that join passes to then()
JoinThenScope == ModuleScope \cup {"self", "job", "done", "pending", "client"}

\* names visible inside the callback _getClient passes to store.get
StoreCallbackScope ==
  ModuleScope \cup {"self", "job", "create", "pending", "err", "creds", "client"}

\* names visible inside _joined and _left
ChannelHelperScope == ModuleScope \cup {"channel", "index"}

\* the methods IRC.prototype defines
Methods ==
  {"schema", "join", "leave", "send", "update", "observe", "cleanup",
   "_isJoined", "_joined", "_left", "_getClient", "_createClient"}

\* ------------------------------------------------- membership helpers

\* _isJoined with the room test written as indexOf('#') >= 0
_isJoinedAnywhere(chs, channel) ==
  IF IndexOf(channel, "#") >= 0
  THEN IF IndexOf(chs, channel) >= 0 THEN TRUE ELSE FALSE
  ELSE TRUE

\* IRC.prototype._isJoined
_isJoined(chs, channel) ==
  IF IndexOf(channel, "#") = 0
  THEN IF IndexOf(chs, channel) >= 0 THEN TRUE ELSE FALSE
  ELSE TRUE

\* IRC.prototype._joined: reads `job`, which is no name of its scope, so the
\* call ends in a ReferenceError before anything is pushed.
_joined(chs, channel) ==
  IF "job" \notin ChannelHelperScope
  THEN [threw |-> TRUE, channels |-> chs]
  ELSE [threw |-> FALSE,
        channels |-> IF IndexOf(chs, channel) < 0 THEN Append(chs, channel) ELSE chs]

\* IRC.prototype._left: reads `job` the same way.
_left(chs, channel) ==
  IF "job" \notin ChannelHelperScope
  THEN [threw |-> TRUE, channels |-> chs]
  ELSE LET index == IndexOf(chs, channel)
       IN  [threw |-> FALSE,
            channels |-> IF index >= 0 THEN Splice1(chs, index) ELSE chs]

\* -------------------------------------------------------------------- state

VARIABLES
  jobs,        \* jobs[j]: the job handed to the adapter as its j-th, or NoJob
  pc,          \* pc[j]: where job j stands
  jkey,        \* jkey[j]: the id job j passed to connection.create
  jclient,     \* jclient[j]: the client object _getClient resolved with
  jerr,        \* jerr[j]: the error _getClient rejected with, or "none"
  done,        \* done[j]: the arguments of each call of job j's `done`
  raw,         \* the commands passed to client.connection.irc.raw
  _channels,   \* IRC#_channels
  store,       \* the session's credential store
  pool,        \* session.connection: the pooled client objects
  backend,     \* backend[h]: the irc-factory client created as handle h
  sent,        \* sent[j]: the messages the listener passed to session.send
  session,     \* the functions the session object exposes
  handled,     \* the backend callbacks invoked so far, and what each did
  connection   \* the state of the XMPP connection of the session

vars ==
  <<jobs, pc, jkey, jclient, jerr, done, raw, _channels, store, pool,
    backend, sent, session, handled, connection>>

\* the state of the IRC adapter and of its collaborators
adapterVars ==
  <<jobs, pc, jkey, jclient, jerr, done, raw, _channels, store, pool,
    backend, sent>>

\* what the verb handlers of the IRC adapter leave alone
sessionVars == <<session, handled, connection>>

JobIds == 1..MaxJobs

\* a job as the worker hands it over (job.object.content / job.object.topic
\* are both kept in `content`)
Job(v, a, t, o, c) ==
  [verb |-> v, actor |-> a, target |-> t, objectType |-> o, content |-> c]

\* the jobs submitted: every verb and every branch of it for Alice, whose
\* credentials are stored, and a job for Alice2, whose are not
JobInputs ==
  {Job("join", Alice, Room, "none", <<>>),
   Job("leave", Alice, Room, "none", <<>>),
   Job("send", Alice, Room, "message", <<"hi">>),
   Job("update", Alice, Alice2, "address", <<>>),
   Job("update", Alice, Room, "topic", <<"news">>),
   Job("update", Alice, Alice2, "displayName", <<>>),
   Job("observe", Alice, Room, "attendance", <<>>),
   Job("observe", Alice, Room, "message", <<>>),
   Job("send", Alice2, Person, "message", <<"hi">>)}
  \cup
  {Job("send", Alice, Person, "message", c) : c \in Contents}

\* the functions of a live session that the IRC adapter calls for logging
\* and for delivery
IrcSession == {"debug", "send"}

\* IRC(session): a fresh instance; the dispatcher has stored Alice's credentials
NewAdapter ==
  /\ jobs = [j \in JobIds |-> NoJob]
  /\ pc = [j \in JobIds |-> "idle"]
  /\ jkey = [j \in JobIds |-> <<>>]
  /\ jclient = [j \in JobIds |-> NoClient]
  /\ jerr = [j \in JobIds |-> "none"]
  /\ done = [j \in JobIds |-> <<>>]
  /\ raw = {}
  /\ _channels = <<>>
  /\ store = {[key |-> ActorId(Alice), value |-> CredsOf(Alice)]}
  /\ pool = {}
  /\ backend = <<>>
  /\ sent = [j \in JobIds |-> <<>>]

\* the adapter is constructed with a live session
Init ==
  /\ NewAdapter
  /\ session = IrcSession
  /\ handled = <<>>
  /\ connection = "connected"

\* ------------------------------------------- collaborators of the adapter

\* session.store.get(id, cb): the credentials stored under id, if any
StoreHas(id) == \E e \in store : e.key = id
StoreGet(id) == (CHOOSE e \in store : e.key = id).value

\* session.setConfig('credentials', key, value)
StoreSet(st, key, value) ==
  {e \in st : e.key # key} \cup {[key |-> key, value |-> value]}

\* session.connection.get(id, creds): pure lookup of a ready client object
PoolHas(id) == \E e \in pool : e.key = id /\ e.state = "Ready"
PoolGet(id, creds) == CHOOSE e \in pool : e.key = id /\ e.state = "Ready"

\* the client object as the adapter holds it
ClientOf(e) == [key |-> e.key, credentials |-> e.credentials, handle |-> e.handle]

\* session.connection.move(oldKey, oldCreds, newKey, newCreds) can be done
MoveOk(oldKey, oldCreds) ==
  \E e \in pool : e.key = oldKey /\ e.credentials = oldCreds

\* session.connection.move: the entry re-keyed, its handle kept
PoolMove(pl, oldKey, oldCreds, newKey, newCreds) ==
  LET old == {e \in pl : e.key = oldKey /\ e.credentials = oldCreds}
  IN  (pl \ old) \cup
      {[e EXCEPT !.key = newKey, !.credentials = newCreds] : e \in old}

\* session.connection.create(o, cb): the entries filed under o.id
PoolEntries(id) == {e \in pool : e.key = id}

\* session.connection.create: a new entry is filed while its connector runs
PoolFile(pl, id, creds, handle) ==
  pl \cup {[key |-> id, credentials |-> creds, handle |-> handle,
            state |-> "Connecting"]}

\* session.connection.create: the connector of entry e called back with its client
PoolReady(pl, e) == (pl \ {e}) \cup {[e EXCEPT !.state = "Ready"]}

\* session.connection.create: the attempt behind entry e is discarded
PoolDrop(pl, e) == pl \ {e}

\* the jobs waiting for the creation under key k to answer
Waiting(k) == {j \in JobIds : pc[j] = "create" /\ jkey[j] = k}

\* ------------------------------------------------------ _createClient parts

\* an id that also names the job's target: a connection per conversation
CreateIdPerTarget(job, creds) == creds.id \o job.target

\* an id made of the nickname alone, not the one _getClient looks up
CreateIdByNick(job, creds) == creds.nick

\* the id _createClient gives connection.create
CreateId(job, creds) == creds.id

\* the connector given to connection.create: api.createClient(key, module_creds)
Connect(key, creds) ==
  [key |-> key, nick |-> creds.nick, server |-> creds.server, state |-> "connecting"]

\* the completion callback _createClient gives connection.create
CreateCallback(err, client) ==
  IF err # "none" THEN [settle |-> "rejected", err |-> err, client |-> NoClient]
  ELSE IF client = NoClient
       THEN [settle |-> "rejected", err |-> NoClientObj, client |-> NoClient]
       ELSE [settle |-> "resolved", err |-> "none", client |-> client]

\* the `disconnect` function given to connection.create: the teardown of a
\* client's backend connection
disconnect(bk, client) == [bk EXCEPT ![client.handle].state = "disconnected"]

\* ------------------------------------------------------------ job dispatch

\* the worker calls IRC.prototype[job.verb](job, done): the verb logs, calls
\* _getClient, which asks the store for the actor's credentials
Dispatch(j, job) ==
  /\ pc[j] = "idle"
  /\ \A i \in JobIds : i < j => pc[i] # "idle"
  /\ jobs' = [jobs EXCEPT ![j] = job]
  /\ pc' = [pc EXCEPT ![j] = "store"]
  /\ UNCHANGED <<jkey, jclient, jerr, done, raw, _channels, store, pool,
                 backend, sent>>
  /\ UNCHANGED sessionVars

\* _getClient's promise settles for job j
Settle(j, outcome) ==
  /\ pc' = [pc EXCEPT ![j] = outcome.settle]
  /\ jerr' = [jerr EXCEPT ![j] = outcome.err]
  /\ jclient' = [jclient EXCEPT ![j] = outcome.client]

\* IRC.prototype._createClient, called for job j: connection.create is asked for
\* a client under CreateId. An entry that is there is handed out (now if it is
\* ready, when it gets ready otherwise); else the pool files a new entry and
\* runs the connector.
_createClient(j, key, creds) ==
  LET id == CreateId(jobs[j], creds)
      there == PoolEntries(id)
  IN  /\ jkey' = [jkey EXCEPT ![j] = id]
      /\ IF \E e \in there : e.state = "Ready"
         THEN /\ Settle(j, CreateCallback("none",
                           ClientOf(CHOOSE e \in there : e.state = "Ready")))
              /\ UNCHANGED <<pool, backend>>
         ELSE IF there # {}
         THEN /\ pc' = [pc EXCEPT ![j] = "create"]
              /\ UNCHANGED <<jerr, jclient, pool, backend>>
         ELSE /\ pc' = [pc EXCEPT ![j] = "create"]
              /\ pool' = PoolFile(pool, id, creds, Len(backend) + 1)
              /\ backend' = Append(backend, Connect(key, creds))
              /\ UNCHANGED <<jerr, jclient>>

\* the callback _getClient gives store.get, run for job j
StoreCallback(j) ==
  /\ pc[j] = "store"
  /\ LET id == ActorId(jobs[j].actor)
         create == TRUE
     IN  IF ~StoreHas(id)
         THEN \* `promise.reject(err)`: promise is no name in scope
              /\ IF "promise" \notin StoreCallbackScope
                 THEN /\ pc' = [pc EXCEPT ![j] = "crashed"]
                      /\ UNCHANGED <<jerr, jclient>>
                 ELSE Settle(j, [settle |-> "rejected", err |-> "StoreError",
                                 client |-> NoClient])
              /\ UNCHANGED <<jkey, pool, backend>>
         ELSE LET creds == StoreGet(id)
              IN  IF ~PoolHas(id) /\ create
                  THEN _createClient(j, id, creds)
                  ELSE IF PoolHas(id)
                  THEN /\ Settle(j, [settle |-> "resolved", err |-> "none",
                                     client |-> ClientOf(PoolGet(id, creds))])
                       /\ UNCHANGED <<jkey, pool, backend>>
                  ELSE /\ Settle(j, [settle |-> "rejected", err |-> "undefined",
                                     client |-> NoClient])
                       /\ UNCHANGED <<jkey, pool, backend>>
  /\ UNCHANGED <<jobs, done, raw, _channels, store, sent>>
  /\ UNCHANGED sessionVars

\* the backend emits `registered` for handle h: onRegister calls cb(null, client);
\* the pool marks the entry ready and answers every create waiting for it
Registered(h) ==
  /\ h \in 1..Len(backend)
  /\ backend[h].state = "connecting"
  /\ backend' = [backend EXCEPT ![h].state = "registered"]
  /\ IF \E e \in pool : e.handle = h /\ e.state = "Connecting"
     THEN LET e == CHOOSE e \in pool : e.handle = h /\ e.state = "Connecting"
              out == CreateCallback("none", ClientOf(e))
          IN  /\ pool' = PoolReady(pool, e)
              /\ pc' = [j \in JobIds |->
                          IF j \in Waiting(e.key) THEN out.settle ELSE pc[j]]
              /\ jerr' = [j \in JobIds |->
                          IF j \in Waiting(e.key) THEN out.err ELSE jerr[j]]
              /\ jclient' = [j \in JobIds |->
                          IF j \in Waiting(e.key) THEN out.client ELSE jclient[j]]
     ELSE UNCHANGED <<pool, pc, jerr, jclient>>
  /\ UNCHANGED <<jobs, jkey, done, raw, _channels, store, sent>>
  /\ UNCHANGED sessionVars

\* the creation under key k fails (the handshake is rejected) or runs into the
\* timeout: the pool drops the entry and answers every waiting create with err
CreateFails(k, err) ==
  /\ \E e \in pool : e.key = k /\ e.state = "Connecting"
  /\ LET e == CHOOSE e \in pool : e.key = k /\ e.state = "Connecting"
         out == CreateCallback(err, NoClient)
     IN  /\ pool' = PoolDrop(pool, e)
         /\ backend' = IF err = "ConnectFailed"
                       THEN [backend EXCEPT ![e.handle].state = "failed"]
                       ELSE backend
         /\ pc' = [j \in JobIds |->
                     IF j \in Waiting(k) THEN out.settle ELSE pc[j]]
         /\ jerr' = [j \in JobIds |->
                     IF j \in Waiting(k) THEN out.err ELSE jerr[j]]
         /\ jclient' = [j \in JobIds |->
                     IF j \in Waiting(k) THEN out.client ELSE jclient[j]]
  /\ UNCHANGED <<jobs, jkey, done, raw, _channels, store, sent>>
  /\ UNCHANGED sessionVars

\* ------------------------------------------------------------ verb handlers

\* client.connection.irc.raw(cmd), issued by job j
Raw(j, cmd) == [job |-> j, handle |-> jclient[j].handle, cmd |-> cmd]

\* done(...) of job j
Done(j, arg) == [done EXCEPT ![j] = Append(@, arg)]

\* a || b || '' on strings
OrElse(a, b) == IF a # <<>> THEN a ELSE IF b # <<>> THEN b ELSE <<>>

\* join: the handler given to then(), run with the client. Its first statement
\* reads `err`, which is no name of its scope: the handler ends there in a
\* ReferenceError, which rejects the promise then() returned; nobody handles it.
JoinThen(j) ==
  /\ pc[j] = "resolved"
  /\ jobs[j].verb = "join"
  /\ IF "err" \notin JoinThenScope
     THEN /\ pc' = [pc EXCEPT ![j] = "threw"]
          /\ UNCHANGED <<raw, _channels, done>>
     ELSE LET r == _joined(_channels, jobs[j].target)
          IN  /\ raw' = raw \cup {Raw(j, <<"JOIN", jobs[j].target>>)}
              /\ _channels' = r.channels
              /\ IF r.threw
                 THEN /\ pc' = [pc EXCEPT ![j] = "threw"]
                      /\ UNCHANGED done
                 ELSE /\ pc' = [pc EXCEPT ![j] = "finished"]
                      /\ done' = Done(j, Success)
  /\ UNCHANGED <<jobs, jkey, jclient, jerr, store, pool, backend, sent>>
  /\ UNCHANGED sessionVars

\* leave: the handler given to then(). PART is issued, then `self._leave` is
\* called, which is no method of IRC.prototype (a TypeError): done is not reached.
LeaveThen(j) ==
  /\ pc[j] = "resolved"
  /\ jobs[j].verb = "leave"
  /\ "_leave" \notin Methods
  /\ raw' = raw \cup {Raw(j, <<"PART", jobs[j].target>>)}
  /\ pc' = [pc EXCEPT ![j] = "threw"]
  /\ UNCHANGED <<jobs, jkey, jclient, jerr, done, _channels, store, pool,
                 backend, sent>>
  /\ UNCHANGED sessionVars

\* send's handler with the `else` lost: done is called for the message sent
\* and again with the error
SendThenNoElse(j) ==
  /\ pc[j] = "resolved"
  /\ jobs[j].verb = "send"
  /\ IF _isJoined(_channels, jobs[j].target)
     THEN LET msg == Trim(jobs[j].content)
          IN  /\ raw' = raw \cup {Raw(j, <<"PRIVMSG", jobs[j].target, msg>>)}
              /\ done' = [done EXCEPT ![j] = @ \o <<Success, NotJoined>>]
     ELSE /\ done' = Done(j, NotJoined)
          /\ UNCHANGED raw
  /\ pc' = [pc EXCEPT ![j] = "finished"]
  /\ UNCHANGED <<jobs, jkey, jclient, jerr, _channels, store, pool, backend,
                 sent>>
  /\ UNCHANGED sessionVars

\* send: the handler given to then()
SendThen(j) ==
  /\ pc[j] = "resolved"
  /\ jobs[j].verb = "send"
  /\ IF _isJoined(_channels, jobs[j].target)
     THEN LET msg == Trim(jobs[j].content)
          IN  /\ raw' = raw \cup {Raw(j, <<"PRIVMSG", jobs[j].target, msg>>)}
              /\ done' = Done(j, Success)
     ELSE /\ done' = Done(j, NotJoined)
          /\ UNCHANGED raw
  /\ pc' = [pc EXCEPT ![j] = "finished"]
  /\ UNCHANGED <<jobs, jkey, jclient, jerr, _channels, store, pool, backend,
                 sent>>
  /\ UNCHANGED sessionVars

\* the key update gives connection.move for the renamed client
MoveKey(job, newCreds) == job.target \o <<"@">> \o newCreds.server

\* the key update gives session.setConfig for the new credentials
ConfigKey(job, newCreds) == job.target

\* an update handler that takes every objectType other than address for a
\* topic change
UpdateThenElseTopic(j, moveThrows) ==
  /\ pc[j] = "resolved"
  /\ jobs[j].verb = "update"
  /\ LET job == jobs[j]
         client == jclient[j]
     IN  IF job.objectType = "address"
         THEN LET oldCreds == client.credentials
                  newCreds == [client.credentials EXCEPT
                                 !.nick = job.target,
                                 !.displayName = job.target,
                                 !.name = OrElse(job.target, client.credentials.name)]
              IN  /\ raw' = raw \cup {Raw(j, <<"NICK", job.target>>)}
                  /\ store' = StoreSet(store, ConfigKey(job, newCreds), newCreds)
                  /\ IF MoveOk(client.key, oldCreds)
                     THEN /\ ~moveThrows
                          /\ pool' = PoolMove(pool, client.key, oldCreds,
                                              MoveKey(job, newCreds), newCreds)
                          /\ done' = Done(j, Success)
                          /\ pc' = [pc EXCEPT ![j] = "finished"]
                     ELSE /\ UNCHANGED pool
                          /\ IF moveThrows
                             THEN /\ pc' = [pc EXCEPT ![j] = "threw"]
                                  /\ UNCHANGED done
                             ELSE /\ pc' = [pc EXCEPT ![j] = "finished"]
                                  /\ done' = Done(j, Success)
         ELSE /\ ~moveThrows
              /\ raw' = raw \cup {Raw(j, <<"topic", job.target, job.content>>)}
              /\ done' = Done(j, Success)
              /\ pc' = [pc EXCEPT ![j] = "finished"]
              /\ UNCHANGED <<store, pool>>
  /\ UNCHANGED <<jobs, jkey, jclient, jerr, _channels, backend, sent>>
  /\ UNCHANGED sessionVars

\* update: the handler given to then(). connection.move of an entry that is no
\* longer under client.key with these credentials fails; whether that is a
\* thrown error or a returned one is the connection manager's choice.
UpdateThen(j, moveThrows) ==
  /\ pc[j] = "resolved"
  /\ jobs[j].verb = "update"
  /\ LET job == jobs[j]
         client == jclient[j]
     IN  IF job.objectType = "address"
         THEN LET oldCreds == client.credentials
                  newCreds == [client.credentials EXCEPT
                                 !.nick = job.target,
                                 !.displayName = job.target,
                                 !.name = OrElse(job.target, client.credentials.name)]
              IN  /\ raw' = raw \cup {Raw(j, <<"NICK", job.target>>)}
                  /\ store' = StoreSet(store, ConfigKey(job, newCreds), newCreds)
                  /\ IF MoveOk(client.key, oldCreds)
                     THEN /\ ~moveThrows
                          /\ pool' = PoolMove(pool, client.key, oldCreds,
                                              MoveKey(job, newCreds), newCreds)
                          /\ done' = Done(j, Success)
                          /\ pc' = [pc EXCEPT ![j] = "finished"]
                     ELSE /\ UNCHANGED pool
                          /\ IF moveThrows
                             THEN /\ pc' = [pc EXCEPT ![j] = "threw"]
                                  /\ UNCHANGED done
                             ELSE /\ pc' = [pc EXCEPT ![j] = "finished"]
                                  /\ done' = Done(j, Success)
         ELSE IF job.objectType = "topic"
         THEN /\ ~moveThrows
              /\ raw' = raw \cup {Raw(j, <<"topic", job.target, job.content>>)}
              /\ done' = Done(j, Success)
              /\ pc' = [pc EXCEPT ![j] = "finished"]
              /\ UNCHANGED <<store, pool>>
         ELSE /\ ~moveThrows
              /\ done' = Done(j, Success)
              /\ pc' = [pc EXCEPT ![j] = "finished"]
              /\ UNCHANGED <<raw, store, pool>>
  /\ UNCHANGED <<jobs, jkey, jclient, jerr, _channels, backend, sent>>
  /\ UNCHANGED sessionVars

\* an observe handler that sends NAMES whatever the objectType is
ObserveThenAnyType(j) ==
  /\ pc[j] = "resolved"
  /\ jobs[j].verb = "observe"
  /\ raw' = raw \cup {Raw(j, <<"NAMES", jobs[j].target>>)}
  /\ done' = Done(j, Success)
  /\ pc' = [pc EXCEPT ![j] = "finished"]
  /\ UNCHANGED <<jobs, jkey, jclient, jerr, _channels, store, pool, backend,
                 sent>>
  /\ UNCHANGED sessionVars

\* observe: the handler given to then()
ObserveThen(j) ==
  /\ pc[j] = "resolved"
  /\ jobs[j].verb = "observe"
  /\ IF jobs[j].objectType = "attendance"
     THEN /\ raw' = raw \cup {Raw(j, <<"NAMES", jobs[j].target>>)}
          /\ done' = Done(j, Success)
     ELSE /\ done' = Done(j, UnknownType)
          /\ UNCHANGED raw
  /\ pc' = [pc EXCEPT ![j] = "finished"]
  /\ UNCHANGED <<jobs, jkey, jclient, jerr, _channels, store, pool, backend,
                 sent>>
  /\ UNCHANGED sessionVars

\* the verb attaches no rejection handler: the rejection stays unhandled
RejectedUnhandled(j) ==
  /\ pc[j] = "rejected"
  /\ pc' = [pc EXCEPT ![j] = "threw"]
  /\ UNCHANGED <<jobs, jkey, jclient, jerr, done, raw, _channels, store, pool,
                 backend, sent>>
  /\ UNCHANGED sessionVars

\* _getClient rejected: `done` is the rejection handler of every verb (the
\* second argument of then(), or catch() for send)
Rejected(j) ==
  /\ pc[j] = "rejected"
  /\ done' = Done(j, jerr[j])
  /\ pc' = [pc EXCEPT ![j] = "finished"]
  /\ UNCHANGED <<jobs, jkey, jclient, jerr, raw, _channels, store, pool,
                 backend, sent>>
  /\ UNCHANGED sessionVars

\* IRC.prototype.cleanup(job, done), handed over as the j-th job: calls done,
\* and nothing else
cleanup(j) ==
  /\ pc[j] = "idle"
  /\ \A i \in JobIds : i < j => pc[i] # "idle"
  /\ jobs' = [jobs EXCEPT ![j] = Job("cleanup", Alice, <<>>, "none", <<>>)]
  /\ done' = Done(j, Success)
  /\ pc' = [pc EXCEPT ![j] = "finished"]
  /\ UNCHANGED <<jkey, jclient, jerr, raw, _channels, store, pool, backend, sent>>
  /\ UNCHANGED sessionVars

\* --------------------------------------------------------- backend events

\* a field of a raw event object: its typeof, and its value
Undefined == [t |-> "undefined"]
Str(v) == [t |-> "string", v |-> v]
Obj(v) == [t |-> "object", v |-> v]

TypeOf(x) == x.t

\* !x for a field holding a string or nothing
Falsy(x) == TypeOf(x) = "undefined" \/ x.v = <<>>

\* raw.indexOf(marker) >= 0 (the marker is one token of the line)
Contains(x, marker) == IndexOf(x.v, marker) >= 0

\* an event object none of whose fields is set
NoFields ==
  [names |-> Undefined, channel |-> Undefined, who |-> Undefined,
   topic |-> Undefined, topicBy |-> Undefined, nickname |-> Undefined,
   newnick |-> Undefined, target |-> Undefined, message |-> Undefined,
   motd |-> Undefined, mode |-> Undefined, raw |-> Undefined]

\* the message objects the listener builds
Msg(verb, actor, target, object) ==
  [verb |-> verb, actor |-> actor, target |-> target, object |-> object]

\* a branch that passes its message to session.send twice
SendsTwice(m) == [threw |-> FALSE, logs |-> 1, msgs |-> <<m, m>>]

\* what the listener did with an event: the messages it passed to
\* session.send, how often it called session.debug, whether it threw
Sends(m) == [threw |-> FALSE, logs |-> 1, msgs |-> <<m>>]
Skips    == [threw |-> FALSE, logs |-> 0, msgs |-> <<>>]
Logs(n)  == [threw |-> FALSE, logs |-> n, msgs |-> <<>>]
Throws   == [threw |-> TRUE, logs |-> 0, msgs |-> <<>>]

\* listeners['*'] of _createClient: what it passes to session.send for one
\* event object, or that it ends in a TypeError (indexOf of an undefined raw)
Listener(object) ==
  IF TypeOf(object.names) = "object"
  THEN Sends(Msg("observe", object.channel, object.channel,
                 [objectType |-> "attendance", members |-> object.names]))
  ELSE IF TypeOf(object.channel) = "string" /\ TypeOf(object.who) = "object"
  THEN Skips
  ELSE IF TypeOf(object.topic) = "string" /\ TypeOf(object.topicBy) = "string"
  THEN Sends(Msg("update", object.topicBy, object.channel,
                 [objectType |-> "topic", topic |-> object.topic]))
  ELSE IF TypeOf(object.newnick) = "string"
  THEN Sends(Msg("update", object.nickname, object.newnick,
                 [objectType |-> "address"]))
  ELSE IF TypeOf(object.channel) = "string" /\ TypeOf(object.raw) # "string"
  THEN Throws
  ELSE IF TypeOf(object.channel) = "string" /\ Contains(object.raw, " JOIN ")
  THEN IF Falsy(object.nickname)
       THEN Logs(2)
       ELSE Sends(Msg("join", object.nickname, object.channel, [none |-> TRUE]))
  ELSE IF TypeOf(object.target) = "string" /\ TypeOf(object.message) = "string"
  THEN IF Falsy(object.nickname)
       THEN Logs(1)
       ELSE Sends(Msg("send", object.nickname, object.target,
                      [text |-> object.message]))
  ELSE IF TypeOf(object.motd) = "object"
  THEN Skips
  ELSE IF TypeOf(object.mode) = "string"
  THEN Skips
  ELSE IF TypeOf(object.nickname) = "string" /\ TypeOf(object.target) = "undefined"
  THEN Sends(Msg("leave", object.nickname, Str(<<>>), [text |-> <<"user has quit">>]))
  ELSE IF TypeOf(object.channel) = "string" /\ Contains(object.raw, " PART ")
  THEN Sends(Msg("leave", object.nickname, object.target,
                 [text |-> <<"user has left the channel">>]))
  ELSE Skips

\* the events the backend of this model emits: Alice's own join of the room is
\* confirmed, and the room's member list arrives
BackendEvents ==
  {[NoFields EXCEPT !.channel = Str(Room), !.nickname = Str(Alice),
                    !.raw = Str(<<":alice", " JOIN ", "#room">>)],
   [NoFields EXCEPT !.channel = Str(Room), !.names = Obj(<<Alice, Person>>)]}

\* a listener that also records the channel of a join it reports
BackendEventTracksJoin(j, object) ==
  /\ pc[j] = "idle"
  /\ \A i \in JobIds : i < j => pc[i] # "idle"
  /\ \E e \in pool : e.state = "Ready"
  /\ jobs' = [jobs EXCEPT ![j] = [verb |-> "*", object |-> object]]
  /\ LET r == Listener(object)
     IN  /\ sent' = [sent EXCEPT ![j] = r.msgs]
         /\ pc' = [pc EXCEPT ![j] = IF r.threw THEN "threw" ELSE "finished"]
         /\ _channels' = IF r.msgs # <<>> /\ r.msgs[1].verb = "join"
                         THEN Append(_channels, object.channel.v)
                         ELSE _channels
  /\ UNCHANGED <<jkey, jclient, jerr, done, raw, store, pool, backend>>
  /\ UNCHANGED sessionVars

\* a pooled connection emits an event, the adapter's j-th input: the pool
\* passes it to listeners['*']
BackendEvent(j, object) ==
  /\ pc[j] = "idle"
  /\ \A i \in JobIds : i < j => pc[i] # "idle"
  /\ \E e \in pool : e.state = "Ready"
  /\ jobs' = [jobs EXCEPT ![j] = [verb |-> "*", object |-> object]]
  /\ LET r == Listener(object)
     IN  /\ sent' = [sent EXCEPT ![j] = r.msgs]
         /\ pc' = [pc EXCEPT ![j] = IF r.threw THEN "threw" ELSE "finished"]
  /\ UNCHANGED <<jkey, jclient, jerr, done, raw, _channels, store, pool, backend>>
  /\ UNCHANGED sessionVars

Next ==
  \/ \E j \in JobIds, job \in JobInputs : Dispatch(j, job)
  \/ \E j \in JobIds : StoreCallback(j)
  \/ \E h \in 1..Len(backend) : Registered(h)
  \/ \E e \in pool, err \in ConnectErrors : CreateFails(e.key, err)
  \/ \E j \in JobIds : JoinThen(j)
  \/ \E j \in JobIds : LeaveThen(j)
  \/ \E j \in JobIds : SendThen(j)
  \/ \E j \in JobIds, moveThrows \in BOOLEAN : UpdateThen(j, moveThrows)
  \/ \E j \in JobIds : ObserveThen(j)
  \/ \E j \in JobIds : Rejected(j)
  \/ \E j \in JobIds : cleanup(j)
  \/ \E j \in JobIds, object \in BackendEvents : BackendEvent(j, object)

Spec == Init /\ [][Next]_vars

\* ------------------------------- XMPP: lib/incoming-handlers.js, the guard

\* the functions of a live session that the guard delegates to
XmppSession == {"debug", "sendToClient"}

\* the actor of the session, and the room it talks to
Jid     == <<"alice", "@", "host">>
RoomJid == <<"room", "@", "muc.host">>

\* one call that reached the session object
Call(funcName, msg) == [fn |-> funcName, msg |-> msg]

\* what a piece of handler code did: the calls that reached the session,
\* whether the connection was disconnected, and the exception it ended in
Did(calls) == [threw |-> "none", calls |-> calls, disconnected |-> FALSE]
Threw(kind) == [threw |-> kind, calls |-> <<>>, disconnected |-> FALSE]

\* statement a, then statement b unless a threw
Then(a, b) ==
  IF a.threw # "none" THEN a
  ELSE [threw |-> b.threw, calls |-> a.calls \o b.calls,
        disconnected |-> a.disconnected \/ b.disconnected]

\* a guard that calls session[funcName] without looking at it first
checkScopeUnchecked(s, funcName, msg) ==
  IF funcName \in s THEN Did(<<Call(funcName, msg)>>) ELSE Threw("TypeError")

\* the function checkScope(funcName) returns, called with msg while the
\* session exposes the functions s
checkScope(s, funcName, msg) ==
  IF funcName \in s THEN Did(<<Call(funcName, msg)>>) ELSE Did(<<>>)

\* the properties of the object referenceProtection returns
referenceProtection == {"actor", "debug", "sendToClient"}

\* this.session.debug(msg) and this.session.sendToClient(msg) of a handler
debug(s, msg) == checkScope(s, "debug", msg)
sendToClient(s, msg) == checkScope(s, "sendToClient", msg)

\* --------------------------- XMPP: lib/incoming-handlers.js, the handlers

\* number of callbacks the backend invokes on one IncomingHandlers instance
MaxCalls == 2

\* largest number of items in a roster query
MaxItems == 2

\* the methods class IncomingHandlers defines
IncomingHandlers == {"constructor", "close", "error", "online", "__stanza"}

\* names visible inside __stanza
StanzaScope ==
  {"idCounter", "nextId", "referenceProtection", "IncomingHandlers",
   "stanza", "error", "message", "type", "query", "entries", "e"}

\* IncomingHandlers.close
close(s) ==
  Then(debug(s, <<"received close event with no handler specified">>),
  Then(sendToClient(s, [type |-> "close", actor |-> Jid, target |-> Jid]),
  Then(debug(s, <<"**** xmpp this.session.for ">> \o Jid \o <<" closed">>),
       IF "connection" \in referenceProtection
       THEN [threw |-> "none", calls |-> <<>>, disconnected |-> TRUE]
       ELSE Threw("TypeError"))))

\* IncomingHandlers.error: its body runs inside try, the catch logs
error(s, e) ==
  LET body ==
        Then(debug(s, <<"*** XMPP ERROR (rl): ">> \o e),
             sendToClient(s, [type |-> "error",
                              object |-> [type |-> "error", content |-> e]]))
  IN  IF body.threw = "none"
      THEN body
      ELSE Then(Did(body.calls), debug(s, <<"*** XMPP ERROR (rl catch): ">>))

\* IncomingHandlers.online
online(s) ==
  Then(debug(s, <<"online">>), debug(s, <<"reconnectioned ">> \o Jid))

\* a stanza: its element name, its attributes type, id, from and to, the
\* condition of its error child ("none": no such child), its query child
Stanza(name, type, id, err, hasQuery, items) ==
  [name |-> name, type |-> type, id |-> id, from |-> RoomJid, to |-> Jid,
   error |-> err, hasQuery |-> hasQuery, items |-> items]

\* one item of a roster query
Item(subscription, ask) ==
  [jid |-> <<"bob", "@", "host">>, name |-> <<"bob">>,
   subscription |-> subscription, ask |-> ask]

\* error.toString() and stanza.toString(): the element serialised
ErrorString(err) == <<"<error>", "<", err, "/>", "</error>">>
toString(stanza) ==
  <<"<", stanza.name, " type=", stanza.type, ">">>
  \o (IF stanza.error # "none" THEN ErrorString(stanza.error) ELSE <<>>)
  \o <<"</", stanza.name, ">">>

\* the body of the loop over the items of the query
Entry(s, e) ==
  Then(debug(s, <<"STANZA ATTRS: ">>),
       IF e.subscription = "both"
       THEN IF "state" \in StanzaScope
            THEN sendToClient(s, [type |-> "update",
                                  actor |-> [id |-> e.jid, displayName |-> e.name],
                                  target |-> Jid,
                                  object |-> [type |-> "presence",
                                              presence |-> "state"]])
            ELSE Threw("ReferenceError")
       ELSE IF e.subscription = "from" /\ e.ask = "subscribe"
       THEN sendToClient(s, [type |-> "update",
                             actor |-> [id |-> e.jid, displayName |-> e.name],
                             target |-> Jid,
                             object |-> [type |-> "presence",
                                         presence |-> "notauthorized"]])
       ELSE sendToClient(s, [type |-> "request-friend",
                             actor |-> [id |-> e.jid, displayName |-> e.name],
                             target |-> Jid]))

\* for (let e in entries)
RECURSIVE Entries(_, _)
Entries(s, entries) ==
  IF entries = <<>>
  THEN Did(<<>>)
  ELSE Then(Entry(s, Head(entries)), Entries(s, Tail(entries)))

\* a handler that reports every error stanza under the type `error`
__stanzaFlat(s, stanza) ==
  IF stanza.type = "error"
  THEN sendToClient(s, [type |-> "error",
                        actor |-> [id |-> stanza.from, type |-> "room"],
                        object |-> [type |-> "error",
                                    content |-> IF stanza.error = "none"
                                                THEN toString(stanza)
                                                ELSE ErrorString(stanza.error)],
                        target |-> [id |-> stanza.to, type |-> "person"]])
  ELSE Did(<<>>)

\* IncomingHandlers.__stanza
__stanza(s, stanza) ==
  IF stanza.type = "error"
  THEN LET type ==
             IF stanza.error = "remote-server-not-found" THEN "join"
             ELSE IF stanza.name = "presence" THEN "update"
             ELSE "message"
           message ==
             IF stanza.error = "none" THEN toString(stanza)
             ELSE IF stanza.error = "remote-server-not-found"
             THEN <<"remote server not found ">> \o stanza.from
             ELSE ErrorString(stanza.error)
       IN  sendToClient(s, [type |-> type,
                            actor |-> [id |-> stanza.from, type |-> "room"],
                            object |-> [type |-> "error", content |-> message],
                            target |-> [id |-> stanza.to, type |-> "person"]])
  ELSE IF stanza.name = "iq"
  THEN IF stanza.id = "muc_id" /\ stanza.type = "result"
       THEN Then(debug(s, <<"got room attendance list">>),
                 IF "roomAttendance" \in IncomingHandlers
                 THEN Did(<<>>)
                 ELSE Threw("TypeError"))
       ELSE IF stanza.hasQuery
       THEN Entries(s, stanza.items)
       ELSE Did(<<>>)
  ELSE Did(<<>>)

\* the roster items told apart by __stanza: a mutual subscription, a pending
\* request, anything else
ItemKinds == {Item("both", ""), Item("from", "subscribe"), Item("none", "")}

Rosters == UNION {[1..n -> ItemKinds] : n \in 0..MaxItems}

\* the stanzas the backend delivers: error stanzas of each element with and
\* without an error child, the result of the attendance query, roster
\* queries, and stanzas __stanza has no branch for
Stanzas ==
  {Stanza(n, "error", "join_1", e, FALSE, <<>>) :
     n \in {"presence", "message", "iq"},
     e \in {"none", "item-not-found", "remote-server-not-found"}}
  \cup {Stanza("iq", "result", "muc_id", "none", TRUE, <<>>)}
  \cup {Stanza("iq", "result", "roster_1", "none", TRUE, r) : r \in Rosters}
  \cup {Stanza("iq", "get", "ping_1", "none", FALSE, <<>>),
        Stanza("presence", "available", "", "none", FALSE, <<>>),
        Stanza("message", "chat", "", "none", FALSE, <<>>)}

\* what the backend passes to the error callback
Errors == {<<"connection refused">>}

\* a callback of the instance ran and did r
Handled(handler, arg, r) ==
  /\ Len(handled) < MaxCalls
  /\ handled' = Append(handled, [handler |-> handler, arg |-> arg,
                                 live |-> session, threw |-> r.threw,
                                 calls |-> r.calls])
  /\ connection' = IF r.disconnected THEN "disconnected" ELSE connection
  /\ UNCHANGED session
  /\ UNCHANGED adapterVars

\* the backend emits close, error, online or a stanza
OnClose == Handled("close", <<>>, close(session))
OnError(e) == Handled("error", e, error(session, e))
OnOnline == Handled("online", <<>>, online(session))
OnStanza(stanza) == Handled("__stanza", stanza, __stanza(session, stanza))

\* the platform calls guard.debug(msg) or guard.sendToClient(msg) itself
Delegate(funcName, msg) ==
  Handled(funcName, msg, checkScope(session, funcName, msg))

\* the worker terminates the session: functions of it cease to exist
Teardown(gone) ==
  /\ gone # {}
  /\ session' = session \ gone
  /\ UNCHANGED <<handled, connection>>
  /\ UNCHANGED adapterVars

\* new IncomingHandlers(session) with a live session
XmppInit ==
  /\ NewAdapter
  /\ session = XmppSession
  /\ handled = <<>>
  /\ connection = "connected"

XmppNext ==
  \/ OnClose
  \/ \E e \in Errors : OnError(e)
  \/ OnOnline
  \/ \E stanza \in Stanzas : OnStanza(stanza)
  \/ \E funcName \in XmppSession : Delegate(funcName, <<"hello">>)
  \/ \E gone \in SUBSET session : Teardown(gone)

XmppSpec == XmppInit /\ [][XmppNext]_vars

\* ------------------------------- IRC: callbacks against a terminated session

\* self.session[funcName](msg) as the IRC adapter writes it, called while
\* the session exposes the functions s
sessionCall(s, funcName, msg) ==
  IF funcName \in s THEN Did(<<Call(funcName, msg)>>) ELSE Threw("TypeError")

\* n calls of self.session.debug in a row
RECURSIVE DebugAll(_, _)
DebugAll(s, n) ==
  IF n = 0
  THEN Did(<<>>)
  ELSE Then(sessionCall(s, "debug", <<"received">>), DebugAll(s, n - 1))

\* self.session.send for each message of msgs
RECURSIVE SendAll(_, _)
SendAll(s, msgs) ==
  IF msgs = <<>>
  THEN Did(<<>>)
  ELSE Then(sessionCall(s, "send", Head(msgs)), SendAll(s, Tail(msgs)))

\* listeners['*'] run against the session: the branch it takes logs through
\* session.debug and then passes its message to session.send
ListenerCalls(s, object) ==
  LET r == Listener(object)
  IN  IF r.threw
      THEN Threw("TypeError")
      ELSE Then(DebugAll(s, r.logs), SendAll(s, r.msgs))

\* number of events a pooled connection emits
MaxEvents == 3

\* the record of one callback
Invoked(handler, arg, r) ==
  [handler |-> handler, arg |-> arg, live |-> session, threw |-> r.threw,
   calls |-> r.calls]

\* the events of BackendEvents, and a mode change
LateEvents == BackendEvents \cup {[NoFields EXCEPT !.mode = Str(<<"+o">>)]}

\* a pooled connection emits an event: the pool passes it to listeners['*']
WireEvent(object) ==
  /\ Len(handled) < MaxEvents
  /\ \E e \in pool : e.state = "Ready"
  /\ handled' = Append(handled, Invoked("*", object, ListenerCalls(session, object)))
  /\ UNCHANGED <<session, connection>>
  /\ UNCHANGED adapterVars

\* a pooled connection emits an event after the session was terminated
LateEvent(object) ==
  /\ session = {}
  /\ Len(handled) < MaxCalls
  /\ WireEvent(object)

\* the backend emits `registered` for handle h after the session was
\* terminated: onRegister logs through session.debug before it calls cb
LateRegistered(h) ==
  /\ session = {}
  /\ Len(handled) < MaxCalls
  /\ backend[h].state = "connecting"
  /\ LET r == sessionCall(session, "debug", <<"connected to ">> \o backend[h].server)
     IN  /\ r.threw # "none"
         /\ handled' = Append(handled, Invoked("registered", h, r))
  /\ backend' = [backend EXCEPT ![h].state = "registered"]
  /\ UNCHANGED <<jobs, pc, jkey, jclient, jerr, done, raw, _channels, store,
                 pool, sent, session, connection>>

\* the store answers job j with credentials after the session was
\* terminated: the callback logs through session.debug before it looks at
\* the pool
LateStoreCallback(j) ==
  /\ session = {}
  /\ Len(handled) < MaxCalls
  /\ pc[j] = "store"
  /\ StoreHas(ActorId(jobs[j].actor))
  /\ LET r == sessionCall(session, "debug",
                          <<"got config for ">> \o ActorId(jobs[j].actor))
     IN  /\ r.threw # "none"
         /\ handled' = Append(handled, Invoked("store.get", j, r))
  /\ pc' = [pc EXCEPT ![j] = "threw"]
  /\ UNCHANGED <<jobs, jkey, jclient, jerr, done, raw, _channels, store, pool,
                 backend, sent, session, connection>>

\* jobs arrive and connections get created while the session is live; the
\* worker terminates the session; callbacks that were pending arrive
LateNext ==
  \/ \E j \in JobIds, job \in JobInputs : session = IrcSession /\ Dispatch(j, job)
  \/ \E j \in JobIds : session = IrcSession /\ StoreCallback(j)
  \/ \E h \in 1..Len(backend) : session = IrcSession /\ Registered(h)
  \/ session = IrcSession /\ Teardown(IrcSession)
  \/ \E object \in LateEvents : LateEvent(object)
  \/ \E h \in 1..Len(backend) : LateRegistered(h)
  \/ \E j \in JobIds : LateStoreCallback(j)

LateSpec == Init /\ [][LateNext]_vars

\* ------------------------------------------ IRC: the listener on any event

\* every raw event: each field there or not, the line in raw a JOIN, a PART,
\* another command, or raw missing
RawEvents ==
  {[names |-> n, channel |-> c, who |-> w, topic |-> t, topicBy |-> tb,
    nickname |-> nk, newnick |-> nn, target |-> tg, message |-> m,
    motd |-> md, mode |-> mo, raw |-> r] :
     n \in {Undefined, Obj(<<Alice, Person>>)},
     c \in {Undefined, Str(Room)},
     w \in {Undefined, Obj(<<Alice>>)},
     t \in {Undefined, Str(<<"news">>)},
     tb \in {Undefined, Str(Person)},
     nk \in {Undefined, Str(Alice)},
     nn \in {Undefined, Str(Alice2)},
     tg \in {Undefined, Str(Room)},
     m \in {Undefined, Str(<<"hi">>)},
     md \in {Undefined, Obj(<<"welcome">>)},
     mo \in {Undefined, Str(<<"+o">>)},
     r \in {Undefined,
            Str(<<":alice", " JOIN ", "#room">>),
            Str(<<":alice", " PART ", "#room">>),
            Str(<<":alice", " MODE ", "#room">>)}}

\* the job that brings Alice's connection up
ListenerJob == Job("observe", Alice, Room, "attendance", <<>>)

\* Alice's connection is created for a first job; it then emits any event,
\* and after that repeats this event or emits one of BackendEvents
ListenerNext ==
  \/ \E j \in JobIds : j = 1 /\ Dispatch(j, ListenerJob)
  \/ \E j \in JobIds : StoreCallback(j)
  \/ \E h \in 1..Len(backend) : Registered(h)
  \/ handled = <<>> /\ \E object \in RawEvents : WireEvent(object)
  \/ handled # <<>> /\ \E object \in BackendEvents \cup {handled[1].arg} :
                         WireEvent(object)

ListenerSpec == Init /\ [][ListenerNext]_vars

\* ------------------------------------- IRC: membership and leave events

\* the backend reports that Alice, the adapter's own identity, has left the
\* room, and that she has quit
OwnPart ==
  [NoFields EXCEPT !.channel = Str(Room), !.nickname = Str(Alice),
                   !.raw = Str(<<":alice", " PART ", "#room">>)]
OwnQuit ==
  [NoFields EXCEPT !.nickname = Str(Alice),
                   !.raw = Str(<<":alice", " QUIT ", ":bye">>)]
OwnLeaveEvents == {OwnPart, OwnQuit}

\* the backend reports that Alice has joined the room
OwnJoin ==
  [NoFields EXCEPT !.channel = Str(Room), !.nickname = Str(Alice),
                   !.raw = Str(<<":alice", " JOIN ", "#room">>)]

\* Alice joins the room and sends to it
MembershipJobs ==
  {Job("join", Alice, Room, "none", <<>>),
   Job("send", Alice, Room, "message", <<"hi">>)}

\* Alice's jobs for the room arrive and run, and her connection reports that
\* she has joined and that she has left
MembershipNext ==
  \/ \E j \in JobIds, job \in MembershipJobs : Dispatch(j, job)
  \/ \E j \in JobIds : StoreCallback(j)
  \/ \E h \in 1..Len(backend) : Registered(h)
  \/ \E j \in JobIds : JoinThen(j)
  \/ \E j \in JobIds : SendThen(j)
  \/ \E object \in {OwnJoin} \cup OwnLeaveEvents : WireEvent(object)

MembershipSpec == Init /\ [][MembershipNext]_vars

\* ------------------------------------------------------------------ claims

\* job j is one of the five verbs, and its handler (or the rejection handler)
\* has run to its end
Terminal(j) == jobs[j].verb \in Verbs /\ pc[j] \in {"finished", "threw"}

\* job j's handler ran with a client
GotClient(j) == Terminal(j) /\ jerr[j] = "none" /\ jclient[j] # NoClient

\* the commands job j issued
Issued(j) == {op.cmd : op \in {o \in raw : o.job = j}}

InChannels(t) == \E i \in 1..Len(_channels) : _channels[i] = t

\* C1: whatever the store, the pool and the verb's own check answer, `done` of
\* a job is called at most once.
C1_DoneAtMostOnce == \A j \in JobIds : Len(done[j]) <= 1

\* a send that was forwarded and completed once, next to a job whose
\* connection could not be created and that completed once with that error
C1_Witness ==
  \E i, j \in JobIds :
    /\ jobs[i].verb = "send" /\ GotClient(i) /\ done[i] = <<Success>>
    /\ Terminal(j) /\ jerr[j] \in ConnectErrors /\ done[j] = <<jerr[j]>>

\* C2: once the store and the pool have answered, `done` of the job is called:
\* a job whose handler has run has had its callback invoked.
C2_DoneInvoked == \A j \in JobIds : Terminal(j) => Len(done[j]) >= 1

\* msg is content without its leading and its trailing whitespace
IsTrimOf(msg, content) ==
  /\ msg = <<>> \/ (msg[1] # " " /\ msg[Len(msg)] # " ")
  /\ \E a \in 0..Len(content) :
       /\ a + Len(msg) <= Len(content)
       /\ SubSeq(content, a + 1, a + Len(msg)) = msg
       /\ \A i \in 1..Len(content) :
            (i <= a \/ i > a + Len(msg)) => content[i] = " "

\* the step in which the handler of send job j runs
SendStep(j) ==
  jobs[j].verb = "send" /\ pc[j] = "resolved" /\ pc'[j] # "resolved"

\* C3: a send issues PRIVMSG iff its target does not start with '#' or is in
\* _channels; a room not joined gets the NotJoined error and no backend
\* command; a person gets the trimmed content and success.
C3_SendForwarding ==
  [][\A j \in JobIds : SendStep(j) =>
       LET t == jobs[j].target
           room == t # <<>> /\ t[1] = "#"
           now == raw' \ raw
       IN  /\ (\E op \in now : op.cmd[1] = "PRIVMSG") <=> (~room \/ InChannels(t))
           /\ (room /\ ~InChannels(t)) => (now = {} /\ done'[j] = <<NotJoined>>)
           /\ ~room =>
                /\ done'[j] = <<Success>>
                /\ \E op \in now :
                     /\ now = {op}
                     /\ op.job = j /\ op.handle = jclient[j].handle
                     /\ Len(op.cmd) = 3
                     /\ op.cmd[1] = "PRIVMSG" /\ op.cmd[2] = t
                     /\ IsTrimOf(op.cmd[3], jobs[j].content)]_vars

\* a message to a person went out trimmed, and a message to the room, which is
\* not joined, was refused
C3_Witness ==
  \E i, j \in JobIds :
    /\ jobs[i].verb = "send" /\ jobs[i].target = Person /\ GotClient(i)
    /\ jobs[i].content = <<" ", "hi", " ", "you", " ">>
    /\ Issued(i) = {<<"PRIVMSG", Person, <<"hi", " ", "you">>>>}
    /\ jobs[j].verb = "send" /\ jobs[j].target = Room /\ GotClient(j)
    /\ Issued(j) = {} /\ done[j] = <<NotJoined>>

\* C4: a join of a room, handed over while the pool has no connection for the
\* actor, gets the connection created, issues JOIN for the room, records the
\* room in _channels and calls done with success.
C4_JoinCompletes ==
  \A j \in JobIds :
    (jobs[j].verb = "join" /\ GotClient(j) /\ jkey[j] # <<>>) =>
      /\ jclient[j].key = ActorId(jobs[j].actor)
      /\ <<"JOIN", jobs[j].target>> \in Issued(j)
      /\ InChannels(jobs[j].target)
      /\ done[j] = <<Success>>

\* C5: every member of _channels was the target of a join that completed with
\* success.
C5_MembersWereJoined ==
  \A i \in 1..Len(_channels) :
    \E j \in JobIds :
      /\ jobs[j].verb = "join" /\ jobs[j].target = _channels[i]
      /\ done[j] = <<Success>>

\* the join handler has run with a client, the backend has confirmed a join
\* of the room, and the room is still no member
C5_Witness ==
  \E i, j \in JobIds :
    /\ jobs[i].verb = "join" /\ GotClient(i)
    /\ jobs[j].verb = "*" /\ pc[j] = "finished"
    /\ sent[j] # <<>> /\ sent[j][1].verb = "join"
    /\ ~InChannels(jobs[i].target)

\* C6: a leave issues PART for its target, calls done with success, and the
\* target is no member of _channels afterwards.
C6_LeaveCompletes ==
  \A j \in JobIds :
    (jobs[j].verb = "leave" /\ GotClient(j)) =>
      /\ <<"PART", jobs[j].target>> \in Issued(j)
      /\ done[j] = <<Success>>
      /\ ~InChannels(jobs[j].target)

\* the step in which the handler of the renaming update job j runs, the pool
\* holding the client under its key
RenameStep(j) ==
  /\ jobs[j].verb = "update" /\ jobs[j].objectType = "address"
  /\ pc[j] = "resolved" /\ pc'[j] # "resolved"
  /\ MoveOk(jclient[j].key, jclient[j].credentials)

\* C7: a renaming update issues NICK, moves the pool entry to the key of the new
\* identity with its handle kept, stores the new credentials under that same
\* key, and leaves nothing under the old key.
C7_RenameRekeys ==
  [][\A j \in JobIds : RenameStep(j) =>
       LET new == ActorId(jobs[j].target)
       IN  /\ \E op \in raw' \ raw : op.cmd = <<"NICK", jobs[j].target>>
           /\ \E e \in pool' :
                /\ e.key = new /\ e.handle = jclient[j].handle
                /\ \E c \in store' : c.key = new /\ c.value = e.credentials
           /\ \A e \in pool' : e.key # jclient[j].key
           /\ done'[j] = <<Success>>]_vars

\* a creation failed, was moved away or has been renamed for identity id
Removed(id) ==
  \E j \in JobIds :
    /\ jobs[j].verb \in Verbs /\ ActorId(jobs[j].actor) = id
    /\ \/ jerr[j] \in ConnectErrors
       \/ jobs[j].verb = "update" /\ jobs[j].objectType = "address" /\ Terminal(j)

\* C8: the pool holds at most one entry per key, and jobs of one identity that
\* find the pool empty lead to one entry and one run of the connector.
C8_OneConnection ==
  \A n \in Nicks :
    LET id == ActorId(n)
    IN  /\ Cardinality({e \in pool : e.key = id}) <= 1
        /\ ~Removed(id) =>
             /\ Cardinality({e \in pool : e.credentials.id = id}) <= 1
             /\ Cardinality({h \in 1..Len(backend) : backend[h].key = id}) <= 1

\* two jobs of one actor both asked for a creation, and both hold the one
\* client that was created
C8_Witness ==
  \E i, j \in JobIds :
    /\ i # j /\ jobs[i].verb \in Verbs /\ jobs[j].verb \in Verbs
    /\ jobs[i].actor = jobs[j].actor
    /\ jkey[i] # <<>> /\ jkey[j] = jkey[i]
    /\ pc[i] = "resolved" /\ pc[j] = "resolved"
    /\ jclient[i] # NoClient /\ jclient[j] = jclient[i]
    /\ Len(backend) = 1

\* C9: when the creation for a job fails or times out, the pool keeps no entry
\* for it, and the job's done gets that error once, with no backend command,
\* no change of _channels, no second creation.
C9_CreateFailure ==
  /\ [](\A j \in JobIds :
          (Terminal(j) /\ jerr[j] \in ConnectErrors) =>
             (done[j] = <<jerr[j]>> /\ Issued(j) = {}))
  /\ [][\A j \in JobIds :
          /\ (pc[j] = "create" /\ pc'[j] = "rejected") =>
               /\ jerr'[j] \in ConnectErrors
               /\ \A e \in pool' : e.key # jkey[j]
          /\ (pc[j] = "rejected" /\ pc'[j] # "rejected") =>
               /\ pc'[j] = "finished"
               /\ done'[j] = <<jerr[j]>>
               /\ UNCHANGED <<raw, _channels, pool, backend>>]_vars

\* a job whose creation timed out got the timeout as its one answer
C9_Witness ==
  \E j \in JobIds :
    /\ Terminal(j) /\ jerr[j] = "ConnectTimeout"
    /\ done[j] = <<"ConnectTimeout">>
    /\ \A e \in pool : e.key # jkey[j]

\* the step in which cleanup, the j-th input, runs
CleanupStep(j) == pc[j] = "idle" /\ jobs'[j].verb = "cleanup"

\* C10: when cleanup completes, no ready client is in the pool any more, and
\* the backend connection of each that was there is disconnected.
C10_CleanupReleases ==
  [][\A j \in JobIds : CleanupStep(j) =>
       /\ done'[j] = <<Success>>
       /\ \A e \in pool' : e.state # "Ready"
       /\ \A e \in pool :
            e.state = "Ready" => backend'[e.handle].state = "disconnected"]_vars

\* the callbacks invoked so far
Calls == 1..Len(handled)

\* the i-th callback ran after the session had lost all its functions
TornDown(i) == handled[i].live = {}

\* C11: once the backend has signalled close, the connection of the session
\* is disconnected; handling an error event leaves the connection as it was.
C11_CloseDisconnects ==
  /\ []((\E i \in Calls : handled[i].handler = "close") =>
          connection = "disconnected")
  /\ [][(Len(handled') > Len(handled)
          /\ handled'[Len(handled')].handler = "error") =>
            UNCHANGED connection]_vars

\* C12: a call of guard.debug or guard.sendToClient reaches the session as
\* that one call when the session has the function, and does nothing
\* otherwise; it never throws, and no handler reaches a function the session
\* has not got.
C12_GuardNoOp ==
  \A i \in Calls :
    LET c == handled[i]
    IN  /\ \A k \in 1..Len(c.calls) : c.calls[k].fn \in c.live
        /\ c.handler \in XmppSession =>
             /\ c.threw = "none"
             /\ c.calls = IF c.handler \in c.live
                          THEN <<Call(c.handler, c.arg)>>
                          ELSE <<>>

\* a call the live session received, then the same call made after teardown,
\* which did nothing
C12_Witness ==
  /\ Len(handled) = 2
  /\ handled[1].handler = "sendToClient" /\ handled[1].live = XmppSession
  /\ handled[1].calls = <<Call("sendToClient", handled[1].arg)>>
  /\ handled[2].handler = "sendToClient" /\ TornDown(2)
  /\ handled[2].calls = <<>> /\ handled[2].threw = "none"

\* C13: a callback of IncomingHandlers invoked after the session was torn
\* down delivers nothing, leaves the connection alone and does not throw.
C13_LateCallbackDropped ==
  \A i \in Calls :
    (TornDown(i) /\ handled[i].handler \in IncomingHandlers) =>
      /\ handled[i].calls = <<>>
      /\ handled[i].threw = "none"

\* C14: a callback of the IRC adapter that fires after the session was
\* terminated (an event for the `*` listener, `registered`, the answer of the
\* store) reaches nothing of the session and does not throw.
C14_LateCallbackAbsorbed ==
  \A i \in Calls :
    (TornDown(i) /\ handled[i].handler \in {"*", "registered", "store.get"}) =>
      /\ handled[i].calls = <<>>
      /\ handled[i].threw = "none"

\* the events among the callbacks invoked so far
Events == {i \in Calls : handled[i].handler = "*"}

\* the messages the i-th callback passed to session.send
Delivered(i) ==
  LET sends == SelectSeq(handled[i].calls, LAMBDA c : c.fn = "send")
  IN  [k \in 1..Len(sends) |-> sends[k].msg]

Has(x) == TypeOf(x) # "undefined"

\* the line in raw carries the marker
Marked(object, marker) ==
  TypeOf(object.raw) = "string" /\ Contains(object.raw, marker)

\* the classifier that tries the nine shapes in their stated order
Reference(object) ==
  IF Has(object.names)
  THEN <<Msg("observe", object.channel, object.channel,
             [objectType |-> "attendance", members |-> object.names])>>
  ELSE IF Has(object.topic) /\ Has(object.topicBy)
  THEN <<Msg("update", object.topicBy, object.channel,
             [objectType |-> "topic", topic |-> object.topic])>>
  ELSE IF Has(object.nickname) /\ Has(object.newnick)
  THEN <<Msg("update", object.nickname, object.newnick,
             [objectType |-> "address"])>>
  ELSE IF Has(object.channel) /\ Marked(object, " JOIN ")
  THEN IF Has(object.nickname)
       THEN <<Msg("join", object.nickname, object.channel, [none |-> TRUE])>>
       ELSE <<>>
  ELSE IF Has(object.target) /\ Has(object.message)
  THEN IF Has(object.nickname)
       THEN <<Msg("send", object.nickname, object.target,
                  [text |-> object.message])>>
       ELSE <<>>
  ELSE IF Has(object.nickname) /\ ~Has(object.target)
  THEN <<Msg("leave", object.nickname, Str(<<>>),
             [text |-> <<"user has quit">>])>>
  ELSE IF Has(object.channel) /\ Marked(object, " PART ")
  THEN <<Msg("leave", object.nickname, object.target,
             [text |-> <<"user has left the channel">>])>>
  ELSE <<>>

\* C17: for every event the `*` listener delivers what the classifier of the
\* nine shapes, tried in their stated order, yields.
C17_MatchesReference ==
  \A i \in Events :
    /\ handled[i].threw = "none"
    /\ Delivered(i) = Reference(handled[i].arg)

\* C18: the `*` listener returns for every event, and delivers nothing for an
\* event that has none of the fields it knows.
C18_NeverThrows ==
  \A i \in Events :
    /\ handled[i].threw = "none"
    /\ [handled[i].arg EXCEPT !.raw = Undefined] = NoFields =>
         Delivered(i) = <<>>

\* the messages the i-th callback passed to session.sendToClient
ToClient(i) ==
  LET sends == SelectSeq(handled[i].calls, LAMBDA c : c.fn = "sendToClient")
  IN  [k \in 1..Len(sends) |-> sends[k].msg]

\* C16: one stanza given to __stanza leads to at most one message for the
\* client.
C16_AtMostOneMessage ==
  \A i \in Calls :
    handled[i].handler = "__stanza" => Len(ToClient(i)) <= 1

\* the i-th callback is __stanza with an error stanza, the session live
ErrorStanza(i) ==
  /\ handled[i].handler = "__stanza"
  /\ handled[i].arg.type = "error"
  /\ handled[i].live = XmppSession

\* the i-th callback reported a join that failed for the room of the stanza
JoinFailure(i) ==
  /\ Len(ToClient(i)) = 1
  /\ ToClient(i)[1].type = "join"
  /\ ToClient(i)[1].actor.id = handled[i].arg.from
  /\ ToClient(i)[1].object.type = "error"

\* the i-th callback passed on the text of the error
CarriesErrorText(i) ==
  /\ Len(ToClient(i)) = 1
  /\ ToClient(i)[1].object.content =
       IF handled[i].arg.error = "none"
       THEN toString(handled[i].arg)
       ELSE ErrorString(handled[i].arg.error)

\* C19 as stated: an error stanza with remote-server-not-found gives one join
\* failure for the room it came from, any other error stanza gives one message
\* of type `error` with the error text.
C19_ErrorIsTypeError ==
  \A i \in Calls :
    ErrorStanza(i) =>
      IF handled[i].arg.error = "remote-server-not-found"
      THEN JoinFailure(i)
      ELSE CarriesErrorText(i) /\ ToClient(i)[1].type = "error"

\* C19, amended: an error stanza with remote-server-not-found gives one join
\* failure for the room it came from; any other error stanza gives one message
\* whose object is of type `error` and carries the error text, and whose own
\* type is `update` for a presence stanza and `message` otherwise.
C19_ErrorStanza ==
  \A i \in Calls :
    ErrorStanza(i) =>
      IF handled[i].arg.error = "remote-server-not-found"
      THEN JoinFailure(i)
      ELSE /\ CarriesErrorText(i)
           /\ ToClient(i)[1].object.type = "error"
           /\ ToClient(i)[1].type =
                IF handled[i].arg.name = "presence" THEN "update" ELSE "message"

\* a failed join was reported for the room, and a presence error was passed
\* on as an update
C19_Witness ==
  \E i, k \in Calls :
    /\ ErrorStanza(i) /\ handled[i].arg.error = "remote-server-not-found"
    /\ JoinFailure(i)
    /\ ToClient(i)[1].object.content = <<"remote server not found ">> \o RoomJid
    /\ ErrorStanza(k) /\ handled[k].arg.error = "item-not-found"
    /\ handled[k].arg.name = "presence"
    /\ ToClient(k)[1].type = "update"

\* C20: an observe job for attendance issues NAMES for its target, and that
\* only, and calls done with success and nothing else; an observe job of any
\* other objectType issues nothing and calls done with an error. The member
\* list reaches the session as the observe message the listener builds from
\* the backend's user list, and no job's own handler delivers a message.
C20_ObserveAttendance ==
  /\ \A j \in JobIds :
       (jobs[j].verb = "observe" /\ GotClient(j)) =>
         /\ sent[j] = <<>>
         /\ IF jobs[j].objectType = "attendance"
            THEN /\ Issued(j) = {<<"NAMES", jobs[j].target>>}
                 /\ done[j] = <<Success>>
            ELSE /\ Issued(j) = {}
                 /\ Len(done[j]) = 1 /\ done[j][1] # Success
  /\ \A j \in JobIds :
       jobs[j].verb = "*" =>
         IF TypeOf(jobs[j].object.names) = "object"
         THEN /\ Len(sent[j]) = 1
              /\ sent[j][1].verb = "observe"
              /\ sent[j][1].object.objectType = "attendance"
              /\ sent[j][1].object.members = jobs[j].object.names
              /\ sent[j][1].target = jobs[j].object.channel
         ELSE \A k \in 1..Len(sent[j]) : sent[j][k].verb # "observe"

\* an observe job for the room's attendance has completed with NAMES sent,
\* and afterwards the backend's user list was passed on to the session
C20_Witness ==
  \E i, j \in JobIds :
    /\ i < j
    /\ jobs[i].verb = "observe" /\ jobs[i].objectType = "attendance"
    /\ GotClient(i) /\ done[i] = <<Success>>
    /\ Issued(i) = {<<"NAMES", Room>>}
    /\ jobs[j].verb = "*" /\ Len(sent[j]) = 1
    /\ sent[j][1].verb = "observe"
    /\ sent[j][1].object.members = Obj(<<Alice, Person>>)

\* the step in which the handler of update job j runs, the objectType
\* neither address nor topic
OtherUpdateStep(j) ==
  /\ jobs[j].verb = "update"
  /\ jobs[j].objectType \notin {"address", "topic"}
  /\ pc[j] = "resolved" /\ pc'[j] # "resolved"

OwnLeaveStep ==
  /\ handled # <<>>
  /\ handled[Len(handled)].handler = "*"
  /\ handled[Len(handled)].arg = OwnJoin
  /\ Len(handled') = Len(handled) + 1
  /\ handled'[Len(handled')].handler = "*"
  /\ handled'[Len(handled')].arg \in OwnLeaveEvents

\* a report that the adapter's own identity has left the room was handled
OwnLeaveHandled ==
  \E i \in Events : handled[i].arg \in OwnLeaveEvents

PartNotification(object) ==
  /\ TypeOf(object.channel) = "string"
  /\ TypeOf(object.nickname) = "string"
  /\ Marked(object, " PART ")
  /\ [object EXCEPT !.channel = Undefined, !.nickname = Undefined,
                    !.raw = Undefined] = NoFields

\* the message of the quit branch: a leave with the empty target and the
\* reason 'user has quit'
IsQuitLeave(m) ==
  /\ m.verb = "leave"
  /\ m.target = Str(<<>>)
  /\ m.object = [text |-> <<"user has quit">>]

\* C23: a part notification handled by the `*` listener leads to exactly one
\* message for the session, a leave whose actor is the nickname and whose
\* target is the channel of the notification, and which is not the leave of
\* a quit.
C23_PartYieldsLeave ==
  \A i \in Events :
    PartNotification(handled[i].arg) =>
      /\ Len(Delivered(i)) = 1
      /\ Delivered(i)[1].verb = "leave"
      /\ Delivered(i)[1].actor = handled[i].arg.nickname
      /\ Delivered(i)[1].target = handled[i].arg.channel
      /\ ~IsQuitLeave(Delivered(i)[1])

\* the step in which the store callback of job j runs while the pool holds a
\* ready connection under the id of the job's actor
PoolHitStep(j) ==
  /\ jobs[j].verb \in Verbs
  /\ pc[j] = "store" /\ pc'[j] # "store"
  /\ PoolHas(ActorId(jobs[j].actor))

\* C24: a connection is filed under the id that _getClient looks up, so a job
\* whose actor has a ready connection in the pool gets that connection from
\* `get`: _createClient is not called, no entry is filed and no connector
\* runs, and what the job's handler issues goes over that connection.
C24_PoolHit ==
  /\ [](\A j \in JobIds :
          (jobs[j].verb \in Verbs /\ jkey[j] # <<>>) =>
             jkey[j] = ActorId(jobs[j].actor))
  /\ [](\A op \in raw : op.handle = jclient[op.job].handle)
  /\ [][\A j \in JobIds : PoolHitStep(j) =>
          /\ pc'[j] = "resolved"
          /\ jclient'[j] = ClientOf(PoolGet(ActorId(jobs[j].actor), NoCreds))
          /\ UNCHANGED <<pool, backend, jkey>>]_vars

\* a job of Alice had the connection created, a later job of hers got the
\* same connection from the pool without asking for a creation, and its
\* message went out over it
C24_Witness ==
  \E i, j \in JobIds :
    /\ i < j
    /\ jobs[i].verb \in Verbs /\ jobs[i].actor = Alice
    /\ jobs[j].verb = "send" /\ jobs[j].actor = Alice
    /\ jkey[i] = ActorId(Alice) /\ jkey[j] = <<>>
    /\ GotClient(j) /\ jclient[j] = jclient[i]
    /\ Len(backend) = 1
    /\ \E op \in raw : op.job = j /\ op.handle = 1 /\ op.cmd[1] = "PRIVMSG"

\* the step in which the store callback of job j runs with an error: the
\* store has no credentials for the job's actor
StoreFailStep(j) ==
  /\ jobs[j].verb \in Verbs
  /\ pc[j] = "store" /\ pc'[j] # "store"
  /\ ~StoreHas(ActorId(jobs[j].actor))

\* C25: when the store answers the lookup for a job's actor with an error,
\* _getClient's promise is rejected with that error and the pool, the
\* backend and _channels stay as they are; the job's done is then called
\* once, with that error, and the job issues nothing.
C25_StoreFailureReported ==
  /\ [][\A j \in JobIds : StoreFailStep(j) =>
          /\ pc'[j] = "rejected"
          /\ jerr'[j] = "StoreError"
          /\ UNCHANGED <<pool, backend, raw, _channels>>]_vars
  /\ [](\A j \in JobIds :
          (Terminal(j) /\ jerr[j] = "StoreError") =>
             (done[j] = <<"StoreError">> /\ Issued(j) = {}))

====
